---- MODULE Spec2Model ----
(***************************************************************************)
(* ByteExplorer: the React component of src/components/ByteExplorer.jsx.   *)
(* Its state is the component's useState cells; its operations are the     *)
(* handlers the rendered buttons call (processData, toggleByte,            *)
(* createGroup, removeGroup, the grouping-mode switch).                    *)
(*                                                                         *)
(* A text is a sequence of one-character strings.  A record of the held    *)
(* matrix `data` is the JS object {index, byte0.., group<id>..}: here a    *)
(* record [index, byte, group] whose `byte` is the sequence byte0, byte1,  *)
(* ... (the keys are always contiguous from 0) and whose `group` is the    *)
(* map from the <id> of each group<id> key to its value.                   *)
(***************************************************************************)
EXTENDS Integers, Sequences, FiniteSets, TLC

VARIABLES data, selectedBytes, byteGroups, byteStats, error,
          numBytesPerLine, groupingMode, currentGroup, correlationData,
          createdIds

vars == <<data, selectedBytes, byteGroups, byteStats, error,
          numBytesPerLine, groupingMode, currentGroup, correlationData,
          createdIds>>

(***************************************************************************)
(* Bounds of the model.                                                    *)
(***************************************************************************)
\* most lines in a text handed to processData
MaxLines == 2
\* most characters in one line of such a text
MaxLineLen == 3
\* createGroup is not offered once byteGroups holds this many groups
MaxGroups == 2
\* most bytes in a group handed to combineBytes in SpecCombine
MaxGroupLen == 5

\* the byte values SpecCombine builds its records from
ByteSamples == {0, 1, 128, 255}

\* the characters the texts are made of: a hex digit and a blank
Chars == {"F", " "}
NL == "\n"

(***************************************************************************)
(* JavaScript values.                                                      *)
(***************************************************************************)
\* parseInt's NaN, kept apart from every byte value 0..255
NaN == -1
\* the value of a missing key: sample[`byte${b}`] for a b the record lacks
Undefined == -2

UpperHex == <<"0","1","2","3","4","5","6","7","8","9","A","B","C","D","E","F">>
LowerHex == <<"0","1","2","3","4","5","6","7","8","9","a","b","c","d","e","f">>

\* [0-9A-Fa-f]
IsHexDigit(c) == \E v \in 1..16 : c = UpperHex[v] \/ c = LowerHex[v]

HexValue(c) == (CHOOSE v \in 1..16 : c = UpperHex[v] \/ c = LowerHex[v]) - 1

\* the white space String.prototype.trim and parseInt strip
IsWhiteSpace(c) == c \in {" ", "\t", "\r", "\n"}

RECURSIVE TrimStart(_)
TrimStart(s) ==
  IF s = <<>> \/ ~IsWhiteSpace(Head(s)) THEN s ELSE TrimStart(Tail(s))

RECURSIVE TrimEnd(_)
TrimEnd(s) ==
  IF s = <<>> \/ ~IsWhiteSpace(s[Len(s)]) THEN s
  ELSE TrimEnd(SubSeq(s, 1, Len(s) - 1))

\* String.prototype.trim
Trim(s) == TrimEnd(TrimStart(s))

\* String.prototype.split('\n'): the empty text gives one empty line
RECURSIVE SplitLines(_)
SplitLines(s) ==
  IF \A i \in 1..Len(s) : s[i] # NL THEN <<s>>
  ELSE LET i == CHOOSE j \in 1..Len(s) :
                  s[j] = NL /\ \A k \in 1..(j - 1) : s[k] # NL
       IN  <<SubSeq(s, 1, i - 1)>> \o SplitLines(SubSeq(s, i + 1, Len(s)))

\* String.prototype.slice(from, to) with 0-based from, exclusive to, both >= 0
Slice(s, from, to) ==
  SubSeq(s, from + 1, IF to < Len(s) THEN to ELSE Len(s))

\* the longest prefix of hex digits
RECURSIVE HexPrefix(_)
HexPrefix(s) ==
  IF s = <<>> \/ ~IsHexDigit(Head(s)) THEN <<>>
  ELSE <<Head(s)>> \o HexPrefix(Tail(s))

RECURSIVE HexNumber(_)
HexNumber(ds) ==
  IF ds = <<>> THEN 0
  ELSE 16 * HexNumber(SubSeq(ds, 1, Len(ds) - 1)) + HexValue(ds[Len(ds)])

\* parseInt(s, 16) of a text without sign or 0x prefix: leading white space
\* is skipped, the digits up to the first non-digit are read, none gives NaN
ParseInt16(s) ==
  LET ds == HexPrefix(TrimStart(s))
  IN  IF ds = <<>> THEN NaN ELSE HexNumber(ds)

\* /^[0-9A-Fa-f]+$/.test(s)
IsHexString(s) == s # <<>> /\ \A i \in 1..Len(s) : IsHexDigit(s[i])

(***************************************************************************)
(* Statistics of one column (processData's loop body).  The mean and the   *)
(* variance are exact fractions <<numerator, denominator>>; stdDev is the  *)
(* square root of the variance.  Math.min, Math.max and the sums are NaN   *)
(* as soon as one value is NaN.                                            *)
(***************************************************************************)
RECURSIVE SumSeq(_)
SumSeq(s) == IF s = <<>> THEN 0 ELSE Head(s) + SumSeq(Tail(s))

SeqMin(s) == CHOOSE v \in {s[i] : i \in 1..Len(s)} : \A i \in 1..Len(s) : v <= s[i]
SeqMax(s) == CHOOSE v \in {s[i] : i \in 1..Len(s)} : \A i \in 1..Len(s) : v >= s[i]

ColumnStats(values) ==
  LET n   == Len(values)
      sum == SumSeq(values)
      sq  == SumSeq([i \in 1..n |-> values[i] * values[i]])
  IN  IF \E i \in 1..n : values[i] = NaN
      THEN [min |-> NaN, max |-> NaN, mean |-> <<NaN, 1>>, variance |-> <<NaN, 1>>]
      ELSE [min |-> SeqMin(values), max |-> SeqMax(values),
            mean |-> <<sum, n>>,
            variance |-> <<n * sq - sum * sum, n * n>>]

(***************************************************************************)
(* The pure part of processData: validation, decoding, statistics.         *)
(***************************************************************************)
NoData == "No data provided"
InvalidFormat == "Invalid data format. All lines must be hex strings of the same length."

\* an object without keys
EmptyMap == [k \in {} |-> 0]

\* the loop `for (i = 0; i < line.length; i += 2)` over the untrimmed line
LineBytes(line) ==
  [j \in 1..((Len(line) + 1) \div 2) |->
     ParseInt16(Slice(line, 2 * (j - 1), 2 * (j - 1) + 2))]

Lines(input) == SplitLines(Trim(input))

IsValid(lines) ==
  LET firstLineLength == Len(lines[1])
  IN  \A k \in 1..Len(lines) :
        LET trimmed == Trim(lines[k])
        IN  Len(trimmed) = firstLineLength /\ IsHexString(trimmed)

ProcessedData(lines) ==
  [k \in 1..Len(lines) |->
     [index |-> k - 1, byte |-> LineBytes(lines[k]), group |-> EmptyMap]]

\* Object.keys(processedData[0]).length - 1
NumBytes(processedData) == Len(processedData[1].byte)

Column(records, i) == [k \in 1..Len(records) |-> records[k].byte[i + 1]]

Stats(processedData) ==
  [i \in 0..(NumBytes(processedData) - 1) |-> ColumnStats(Column(processedData, i))]

\* what processData(input) arrives at before it sets any state
Decode(input) ==
  LET lines == Lines(input)
  IN  IF Len(lines) = 0
      THEN [ok |-> FALSE, error |-> NoData]
      ELSE IF ~IsValid(lines)
      THEN [ok |-> FALSE, error |-> InvalidFormat]
      ELSE LET processedData == ProcessedData(lines)
           IN  [ok |-> TRUE, data |-> processedData,
                numBytes |-> NumBytes(processedData),
                stats |-> Stats(processedData)]

(***************************************************************************)
(* The texts the model hands to processData: up to MaxLines lines of up to *)
(* MaxLineLen characters each, joined by line breaks.                      *)
(***************************************************************************)
LineSet == UNION {[1..n -> Chars] : n \in 0..MaxLineLen}

RECURSIVE JoinLines(_)
JoinLines(ls) ==
  IF Len(ls) = 1 THEN ls[1] ELSE ls[1] \o <<NL>> \o JoinLines(Tail(ls))

Texts == {JoinLines(ls) : ls \in UNION {[1..m -> LineSet] : m \in 1..MaxLines}}

\* the distinct results of decoding those texts
DecodeOutcomes == {Decode(input) : input \in Texts}

\* one text for each of them: processData's effect depends on its input only
\* through Decode
Inputs == {CHOOSE input \in Texts : Decode(input) = r : r \in DecodeOutcomes}

\* Decode, tabulated once for the texts of Inputs
DecodeTable == [input \in Inputs |-> Decode(input)]

Decoded(input) ==
  IF input \in Inputs THEN DecodeTable[input] ELSE Decode(input)

(***************************************************************************)
(* combineBytes.  JavaScript's << works on 32-bit two's complement values  *)
(* and takes its shift count modulo 32; the sum is of doubles and exact.   *)
(***************************************************************************)
\* ToInt32 of a byte value, NaN or undefined
ToInt32(x) == IF x = NaN \/ x = Undefined THEN 0 ELSE x

\* x << count for 0 <= x < 2^31
ShiftLeft(x, count) ==
  LET v == ToInt32(x)
      c == count % 32
  IN  IF c = 0 THEN v
      ELSE LET m   == 2 ^ (31 - c)
               low == v % (2 * m)
           IN  IF low >= m THEN (low - 2 * m) * (2 ^ c) ELSE low * (2 ^ c)

RECURSIVE CombineFrom(_, _)
CombineFrom(byteValues, idx) ==
  IF idx = 0 THEN 0
  ELSE CombineFrom(byteValues, idx - 1)
         + ShiftLeft(byteValues[idx], 8 * (Len(byteValues) - idx))

\* byteValues.reduce((acc, val, idx) => acc + (val << (8 * (length - 1 - idx))), 0)
combineBytes(byteValues) == CombineFrom(byteValues, Len(byteValues))

(***************************************************************************)
(* The session.                                                            *)
(***************************************************************************)
Init ==
  /\ data = <<>>
  /\ selectedBytes = <<>>
  /\ byteGroups = <<>>
  /\ byteStats = EmptyMap
  /\ error = ""
  /\ numBytesPerLine = 0
  /\ groupingMode = FALSE
  /\ currentGroup = <<>>
  /\ correlationData = <<>>
  /\ createdIds = {}

Range(s) == {s[i] : i \in 1..Len(s)}

\* the array, had it been left in the order of the toggles
SortAscending_AsToggled(s) == s

\* array.sort((a, b) => a - b) of an array of distinct numbers
RECURSIVE SortAscending(_)
SortAscending(s) ==
  IF s = <<>> THEN <<>>
  ELSE LET least == CHOOSE v \in Range(s) : \A w \in Range(s) : v <= w
           IsOther(v) == v # least
       IN  <<least>> \o SortAscending(SelectSeq(s, IsOther))

\* sample[`byte${b}`]
ByteOf(sample, b) ==
  IF b + 1 \in DOMAIN sample.byte THEN sample.byte[b + 1] ELSE Undefined

\* {...sample, [`group${id}`]: value}
WithGroup(sample, id, value) ==
  [sample EXCEPT !.group =
     [k \in DOMAIN sample.group \cup {id} |->
        IF k = id THEN value ELSE sample.group[k]]]

\* const {[`group${id}`]: removed, ...rest} = sample
WithoutGroup(sample, id) ==
  [sample EXCEPT !.group = [k \in DOMAIN sample.group \ {id} |-> sample.group[k]]]

\* processData, had it cleared the held matrix before validating
processData_ClearsFirst(input) ==
  LET r == Decoded(input)
  IN  IF ~r.ok
      THEN /\ error' = r.error
           /\ data' = <<>>
           /\ numBytesPerLine' = 0
           /\ UNCHANGED <<selectedBytes, byteGroups, byteStats,
                          groupingMode, currentGroup, createdIds>>
      ELSE /\ data' = r.data
           /\ numBytesPerLine' = r.numBytes
           /\ byteStats' = r.stats
           /\ error' = ""
           /\ UNCHANGED <<selectedBytes, byteGroups, groupingMode,
                          currentGroup, createdIds>>

\* processData, had a successful decode dropped the selection and the groups
processData_ResetsSession(input) ==
  LET r == Decoded(input)
  IN  IF ~r.ok
      THEN /\ error' = r.error
           /\ UNCHANGED <<data, selectedBytes, byteGroups, byteStats,
                          numBytesPerLine, groupingMode, currentGroup, createdIds>>
      ELSE /\ data' = r.data
           /\ numBytesPerLine' = r.numBytes
           /\ byteStats' = r.stats
           /\ error' = ""
           /\ selectedBytes' = <<>>
           /\ byteGroups' = <<>>
           /\ UNCHANGED <<groupingMode, currentGroup, createdIds>>

\* processData, had a successful decode left the error message standing
processData_KeepsError(input) ==
  LET r == Decoded(input)
  IN  IF ~r.ok
      THEN /\ error' = r.error
           /\ UNCHANGED <<data, selectedBytes, byteGroups, byteStats,
                          numBytesPerLine, groupingMode, currentGroup, createdIds>>
      ELSE /\ data' = r.data
           /\ numBytesPerLine' = r.numBytes
           /\ byteStats' = r.stats
           /\ UNCHANGED <<error, selectedBytes, byteGroups, groupingMode,
                          currentGroup, createdIds>>

\* processData(input): the try block; nothing in it throws, so the catch
\* clause is never entered
processData(input) ==
  LET r == Decoded(input)
  IN  IF ~r.ok
      THEN /\ error' = r.error
           /\ UNCHANGED <<data, selectedBytes, byteGroups, byteStats,
                          numBytesPerLine, groupingMode, currentGroup, createdIds>>
      ELSE /\ data' = r.data
           /\ numBytesPerLine' = r.numBytes
           /\ byteStats' = r.stats
           /\ error' = ""
           /\ UNCHANGED <<selectedBytes, byteGroups, groupingMode,
                          currentGroup, createdIds>>

\* toggleByte, had it toggled the selection in grouping mode as well
toggleByte_AlsoSelects(byteNum) ==
  /\ IF groupingMode
     THEN currentGroup' =
            IF byteNum \in Range(currentGroup)
            THEN LET IsOther(b) == b # byteNum IN SelectSeq(currentGroup, IsOther)
            ELSE SortAscending(Append(currentGroup, byteNum))
     ELSE UNCHANGED currentGroup
  /\ selectedBytes' =
       IF byteNum \in Range(selectedBytes)
       THEN LET IsOther(b) == b # byteNum IN SelectSeq(selectedBytes, IsOther)
       ELSE Append(selectedBytes, byteNum)
  /\ UNCHANGED <<data, byteGroups, byteStats, error, numBytesPerLine,
                 groupingMode, createdIds>>

toggleByte(byteNum) ==
  /\ IF groupingMode
     THEN /\ currentGroup' =
               IF byteNum \in Range(currentGroup)
               THEN LET IsOther(b) == b # byteNum IN SelectSeq(currentGroup, IsOther)
               ELSE SortAscending(Append(currentGroup, byteNum))
          /\ UNCHANGED selectedBytes
     ELSE /\ selectedBytes' =
               IF byteNum \in Range(selectedBytes)
               THEN LET IsOther(b) == b # byteNum IN SelectSeq(selectedBytes, IsOther)
               ELSE Append(selectedBytes, byteNum)
          /\ UNCHANGED currentGroup
  /\ UNCHANGED <<data, byteGroups, byteStats, error, numBytesPerLine,
                 groupingMode, createdIds>>

\* createGroup, had it left grouping mode on an empty draft too
createGroup_AlwaysLeavesMode ==
  IF Len(currentGroup) > 0
  THEN LET newGroup == [id |-> Len(byteGroups),
                        bytes |-> currentGroup,
                        name |-> Len(byteGroups) + 1]
           GroupValue(sample) ==
             combineBytes([p \in 1..Len(newGroup.bytes) |->
                             ByteOf(sample, newGroup.bytes[p])])
       IN  /\ byteGroups' = Append(byteGroups, newGroup)
           /\ data' = [k \in 1..Len(data) |->
                         WithGroup(data[k], newGroup.id, GroupValue(data[k]))]
           /\ currentGroup' = <<>>
           /\ groupingMode' = FALSE
           /\ createdIds' = createdIds \cup {newGroup.id}
           /\ UNCHANGED <<selectedBytes, byteStats, error, numBytesPerLine>>
  ELSE /\ groupingMode' = FALSE
       /\ UNCHANGED <<data, selectedBytes, byteGroups, byteStats, error,
                      numBytesPerLine, currentGroup, createdIds>>

createGroup ==
  IF Len(currentGroup) > 0
  THEN LET newGroup == [id |-> Len(byteGroups),
                        bytes |-> currentGroup,
                        name |-> Len(byteGroups) + 1]
           GroupValue(sample) ==
             combineBytes([p \in 1..Len(newGroup.bytes) |->
                             ByteOf(sample, newGroup.bytes[p])])
       IN  /\ byteGroups' = Append(byteGroups, newGroup)
           /\ data' = [k \in 1..Len(data) |->
                         WithGroup(data[k], newGroup.id, GroupValue(data[k]))]
           /\ currentGroup' = <<>>
           /\ groupingMode' = FALSE
           /\ createdIds' = createdIds \cup {newGroup.id}
           /\ UNCHANGED <<selectedBytes, byteStats, error, numBytesPerLine>>
  ELSE UNCHANGED vars

\* removeGroup, had it dropped every group column of the records
removeGroup_DropsAllColumns(groupId) ==
  /\ byteGroups' = LET IsOther(g) == g.id # groupId IN SelectSeq(byteGroups, IsOther)
  /\ data' = [k \in 1..Len(data) |-> [data[k] EXCEPT !.group = EmptyMap]]
  /\ UNCHANGED <<selectedBytes, byteStats, error, numBytesPerLine,
                 groupingMode, currentGroup, createdIds>>

\* removeGroup, had it cleared the selection as well
removeGroup_ClearsSelection(groupId) ==
  /\ byteGroups' = LET IsOther(g) == g.id # groupId IN SelectSeq(byteGroups, IsOther)
  /\ data' = [k \in 1..Len(data) |-> WithoutGroup(data[k], groupId)]
  /\ selectedBytes' = <<>>
  /\ UNCHANGED <<byteStats, error, numBytesPerLine,
                 groupingMode, currentGroup, createdIds>>

removeGroup(groupId) ==
  /\ byteGroups' = LET IsOther(g) == g.id # groupId IN SelectSeq(byteGroups, IsOther)
  /\ data' = [k \in 1..Len(data) |-> WithoutGroup(data[k], groupId)]
  /\ UNCHANGED <<selectedBytes, byteStats, error, numBytesPerLine,
                 groupingMode, currentGroup, createdIds>>

\* the grouping-mode button: setGroupingMode(!groupingMode)
toggleGroupingMode ==
  /\ groupingMode' = ~groupingMode
  /\ UNCHANGED <<data, selectedBytes, byteGroups, byteStats, error,
                 numBytesPerLine, currentGroup, createdIds>>

(***************************************************************************)
(* The correlation effect, run after every render in which data or         *)
(* selectedBytes changed.  A coefficient is the real number                *)
(* num / sqrt(den1 * den2), or NaN; the rounding of doubles is left out.   *)
(* Each column's deviations from its mean are kept times the column's      *)
(* length and in lowest terms, which leaves that number as it is.          *)
(***************************************************************************)
IsNumber(x) == x # NaN /\ x # Undefined

RECURSIVE GCD(_, _)
GCD(a, b) == IF b = 0 THEN a ELSE GCD(b, a % b)

Abs(x) == IF x < 0 THEN -x ELSE x

RECURSIVE SeqGCD(_)
SeqGCD(s) == IF s = <<>> THEN 0 ELSE GCD(Abs(Head(s)), SeqGCD(Tail(s)))

CoefficientNaN == [nan |-> TRUE, num |-> 0, den1 |-> 1, den2 |-> 1]
CoefficientZero == [nan |-> FALSE, num |-> 0, den1 |-> 1, den2 |-> 1]

\* the deviations, had the mean not been subtracted
Deviations_FromZero(array) == array

\* array.map(x => x - mean) of an array of numbers
Deviations(array) ==
  LET n      == Len(array)
      total  == SumSeq(array)
      scaled == [i \in 1..n |-> n * array[i] - total]
      g      == SeqGCD(scaled)
  IN  IF g = 0 THEN scaled ELSE [i \in 1..n |-> scaled[i] \div g]

\* a value that is not a number makes the means, the sums and the result NaN
calculateCorrelation(array1, array2) ==
  IF \/ \E i \in 1..Len(array1) : ~IsNumber(array1[i])
     \/ \E i \in 1..Len(array2) : ~IsNumber(array2[i])
  THEN CoefficientNaN
  ELSE LET deviation1 == Deviations(array1)
           deviation2 == Deviations(array2)
           sum == SumSeq([i \in 1..Len(array1) |-> deviation1[i] * deviation2[i]])
           sq1 == SumSeq([i \in 1..Len(array1) |-> deviation1[i] * deviation1[i]])
           sq2 == SumSeq([i \in 1..Len(array2) |-> deviation2[i] * deviation2[i]])
       IN  IF sq1 * sq2 = 0 THEN CoefficientZero
           ELSE [nan |-> FALSE, num |-> sum, den1 |-> sq1, den2 |-> sq2]

\* the effect's loops, had the inner one started over at the first position
RECURSIVE LoopPairs_AllOrdered(_, _, _)
LoopPairs_AllOrdered(i, j, n) ==
  IF i > n THEN <<>>
  ELSE IF j > n THEN LoopPairs_AllOrdered(i + 1, 1, n)
  ELSE <<(<<i, j>>)>> \o LoopPairs_AllOrdered(i, j + 1, n)

\* for (i = 0; i < n; i++) for (j = i + 1; j < n; j++): the positions the
\* loops visit from (i, j) on, positions counted from 1
RECURSIVE LoopPairs(_, _, _)
LoopPairs(i, j, n) ==
  IF i > n THEN <<>>
  ELSE IF j > n THEN LoopPairs(i + 1, i + 2, n)
  ELSE <<(<<i, j>>)>> \o LoopPairs(i, j + 1, n)

\* data.map(d => d[`byte${b}`])
ByteColumn(records, b) == [k \in 1..Len(records) |-> ByteOf(records[k], b)]

\* the list the effect hands to setCorrelationData
Correlations(records, selected) ==
  IF Len(selected) > 1
  THEN LET pairs == LoopPairs(1, 2, Len(selected))
       IN  [p \in 1..Len(pairs) |->
              LET byte1 == selected[pairs[p][1]]
                  byte2 == selected[pairs[p][2]]
              IN  [byte1 |-> byte1, byte2 |-> byte2,
                   correlation |-> calculateCorrelation(ByteColumn(records, byte1),
                                                        ByteColumn(records, byte2))]]
  ELSE <<>>

\* useEffect(..., [selectedBytes, data]): nothing while data is empty
correlationEffect ==
  correlationData' = IF Len(data') = 0 THEN correlationData
                     ELSE Correlations(data', selectedBytes')

(***************************************************************************)
(* The CorrelationMatrix component: what it shows of correlationData.      *)
(***************************************************************************)
\* 0.7 as the fraction 7 / 10
CORRELATION_THRESHOLD == <<7, 10>>

\* the filter, had it kept the coefficients at the threshold too
IsSignificant_AtLeast(entry) ==
  LET c == entry.correlation
  IN  /\ ~c.nan
      /\ CORRELATION_THRESHOLD[2] * CORRELATION_THRESHOLD[2] * c.num * c.num
           >= CORRELATION_THRESHOLD[1] * CORRELATION_THRESHOLD[1] * c.den1 * c.den2

\* Math.abs(correlation) > CORRELATION_THRESHOLD, both sides squared; NaN
\* compares false
IsSignificant(entry) ==
  LET c == entry.correlation
  IN  /\ ~c.nan
      /\ CORRELATION_THRESHOLD[2] * CORRELATION_THRESHOLD[2] * c.num * c.num
           > CORRELATION_THRESHOLD[1] * CORRELATION_THRESHOLD[1] * c.den1 * c.den2

significantCorrelations(entries) == SelectSeq(entries, IsSignificant)

NoSignificant == "No significant correlations found"
StrongCorrelations == "Strong Byte Correlations"

\* the rendered component: the message, or the list of rows
CorrelationMatrix(entries) ==
  LET significant == significantCorrelations(entries)
  IN  IF Len(significant) = 0
      THEN [heading |-> NoSignificant, rows |-> <<>>]
      ELSE [heading |-> StrongCorrelations, rows |-> significant]

(***************************************************************************)
(* Entropy, computed at every render from data and selectedBytes.  The     *)
(* entropy -sum(p * log2(p)) of n values is kept as the exact fraction     *)
(* num / den = product of p ^ count over the distinct values, which is     *)
(* 2 ^ (-n * entropy): the entropy is log2(den / num) / n.  The rounding   *)
(* of doubles is left out.                                                 *)
(***************************************************************************)
Digits == <<"0", "1", "2", "3", "4", "5", "6", "7", "8", "9">>

\* String(n) for an integer n >= 0
RECURSIVE DecimalText(_)
DecimalText(n) ==
  IF n < 10 THEN <<Digits[n + 1]>>
  ELSE DecimalText(n \div 10) \o <<Digits[(n % 10) + 1]>>

\* the property key _.countBy files a value under: String(value)
KeyText(value) ==
  IF value = NaN THEN <<"N", "a", "N">>
  ELSE IF value = Undefined THEN <<"u", "n", "d", "e", "f", "i", "n", "e", "d">>
  ELSE DecimalText(value)

\* what Array.prototype.join writes for one element: nothing for undefined
JoinItemText(value) == IF value = Undefined THEN <<>> ELSE KeyText(value)

\* join, had it written no separator
RECURSIVE Join_NoSeparator(_)
Join_NoSeparator(items) ==
  IF items = <<>> THEN <<>>
  ELSE JoinItemText(Head(items)) \o Join_NoSeparator(Tail(items))

\* items.join(',')
RECURSIVE Join(_)
Join(items) ==
  IF items = <<>> THEN <<>>
  ELSE IF Len(items) = 1 THEN JoinItemText(items[1])
  ELSE JoinItemText(items[1]) \o <<",">> \o Join(Tail(items))

\* _.countBy, had it counted every key once
countBy_Once(keys) == [key \in Range(keys) |-> 1]

\* _.countBy(values) of values already written as their keys
countBy(keys) ==
  [key \in Range(keys) |-> Cardinality({i \in 1..Len(keys) : keys[i] = key})]

\* the product of count ^ count over the keys of frequencies
RECURSIVE PowerProduct(_, _)
PowerProduct(frequencies, keys) ==
  IF keys = {} THEN 1
  ELSE LET key == CHOOSE k \in keys : TRUE
       IN  (frequencies[key] ^ frequencies[key])
             * PowerProduct(frequencies, keys \ {key})

calculateEntropy(keys) ==
  LET frequencies == countBy(keys)
      n == Len(keys)
  IN  [n |-> n,
       num |-> PowerProduct(frequencies, DOMAIN frequencies),
       den |-> n ^ n]

\* null, for a value that would be an entropy
NoEntropy == [isNull |-> TRUE, value |-> [n |-> 0, num |-> 1, den |-> 1]]

\* calculateOverallEntropy: null, or {byteEntropies, jointEntropy}
calculateOverallEntropy(records, selected) ==
  IF Len(records) = 0 \/ Len(selected) = 0
  THEN [isNull |-> TRUE, byteEntropies |-> <<>>, jointEntropy |-> NoEntropy]
  ELSE [isNull |-> FALSE,
        byteEntropies |->
          [p \in 1..Len(selected) |->
             [byte |-> selected[p],
              entropy |-> calculateEntropy(
                 [k \in 1..Len(records) |-> KeyText(ByteOf(records[k], selected[p]))])]],
        jointEntropy |->
          IF Len(selected) > 1
          THEN [isNull |-> FALSE,
                value |-> calculateEntropy(
                   [k \in 1..Len(records) |->
                      Join([p \in 1..Len(selected) |-> ByteOf(records[k], selected[p])])])]
          ELSE NoEntropy]

\* const entropyInfo = calculateOverallEntropy()
entropyInfo == calculateOverallEntropy(data, selectedBytes)

(***************************************************************************)
(* What the rendered page offers: the Analyze button always; the selector  *)
(* card (byte buttons, grouping-mode button, Save Group, Remove) only      *)
(* while data is non-empty.                                                *)
(***************************************************************************)
AnalyzeData == \E input \in Inputs : processData(input)

ByteButton ==
  /\ Len(data) > 0
  /\ \E i \in 0..(numBytesPerLine - 1) : toggleByte(i)

GroupingButton == Len(data) > 0 /\ toggleGroupingMode

SaveGroup ==
  /\ Len(data) > 0
  /\ groupingMode
  /\ Len(currentGroup) > 0
  /\ Len(byteGroups) < MaxGroups
  /\ createGroup

RemoveButton ==
  /\ Len(data) > 0
  /\ \E g \in Range(byteGroups) : removeGroup(g.id)

\* each handler's state change is followed by the render's effects
Next ==
  \/ AnalyzeData /\ correlationEffect
  \/ ByteButton /\ correlationEffect
  \/ GroupingButton /\ correlationEffect
  \/ SaveGroup /\ correlationEffect
  \/ RemoveButton /\ correlationEffect

Spec == Init /\ [][Next]_vars

(***************************************************************************)
(* The earlier ByteExplorer variant kept in the repository.  Its           *)
(* processData recomputes the columns of the existing groups on the new    *)
(* records, keyed by the group's position in byteGroups; its other         *)
(* handlers and what its page offers are those above.                      *)
(***************************************************************************)
\* byteGroups.forEach((group, groupIndex) => sample[`group${groupIndex}`] = ...)
RECURSIVE WithGroupsByIndex(_, _, _)
WithGroupsByIndex(sample, groups, n) ==
  IF n = 0 THEN sample
  ELSE WithGroup(WithGroupsByIndex(sample, groups, n - 1), n - 1,
                 combineBytes([p \in 1..Len(groups[n].bytes) |->
                                 ByteOf(sample, groups[n].bytes[p])]))

processDataLegacy(input) ==
  LET r == Decoded(input)
  IN  IF ~r.ok
      THEN /\ error' = r.error
           /\ UNCHANGED <<data, selectedBytes, byteGroups, byteStats,
                          numBytesPerLine, groupingMode, currentGroup, createdIds>>
      ELSE /\ numBytesPerLine' = r.numBytes
           /\ data' = [k \in 1..Len(r.data) |->
                         WithGroupsByIndex(r.data[k], byteGroups, Len(byteGroups))]
           /\ byteStats' = r.stats
           /\ error' = ""
           /\ UNCHANGED <<selectedBytes, byteGroups, groupingMode,
                          currentGroup, createdIds>>

AnalyzeDataLegacy == \E input \in Inputs : processDataLegacy(input)

\* this variant has no correlation state
NextLegacy ==
  \/ AnalyzeDataLegacy /\ UNCHANGED correlationData
  \/ ByteButton /\ UNCHANGED correlationData
  \/ GroupingButton /\ UNCHANGED correlationData
  \/ SaveGroup /\ UNCHANGED correlationData
  \/ RemoveButton /\ UNCHANGED correlationData

SpecLegacy == Init /\ [][NextLegacy]_vars

(***************************************************************************)
(* combineBytes on its own: the session holds one record of up to          *)
(* MaxGroupLen bytes drawn from ByteSamples (the decode of one line of hex *)
(* digits), grouping mode is on and the draft lists every column; the only *)
(* step is Save Group, which applies combineBytes to the record.           *)
(***************************************************************************)
InitCombine ==
  \E bs \in UNION {[1..n -> ByteSamples] : n \in 1..MaxGroupLen} :
    /\ data = <<[index |-> 0, byte |-> bs, group |-> EmptyMap]>>
    /\ numBytesPerLine = Len(bs)
    /\ byteStats = Stats(data)
    /\ selectedBytes = <<>>
    /\ byteGroups = <<>>
    /\ error = ""
    /\ groupingMode = TRUE
    /\ currentGroup = [p \in 1..Len(bs) |-> p - 1]
    /\ correlationData = <<>>
    /\ createdIds = {}

NextCombine == SaveGroup /\ correlationEffect

SpecCombine == InitCombine /\ [][NextCombine]_vars

(***************************************************************************)
(* The handlers as the component's commands: createGroup is called in any  *)
(* state, also with an empty draft and outside grouping mode, where the    *)
(* page shows no Save Group button.                                        *)
(***************************************************************************)
CreateGroupCall == Len(byteGroups) < MaxGroups /\ createGroup

NextHandlers ==
  \/ AnalyzeData /\ correlationEffect
  \/ ByteButton /\ correlationEffect
  \/ GroupingButton /\ correlationEffect
  \/ CreateGroupCall /\ correlationEffect
  \/ RemoveButton /\ correlationEffect

SpecHandlers == Init /\ [][NextHandlers]_vars

(***************************************************************************)
(* Selection and correlation on wider matrices: the session holds the      *)
(* decode of five lines of hex digits whose columns, up to MaxCols of      *)
(* them, are drawn from CorrelationSamples; the steps are the byte buttons *)
(* and Analyze Data.  The samples give the coefficients 1, -1, 0.9, 0.7    *)
(* exactly, -0.7, 0.3 and others, and a constant column.                   *)
(***************************************************************************)
\* most columns of the sample matrix
MaxCols == 3

CorrelationSamples ==
  { <<0, 1, 2, 3, 4>>, <<1, 2, 0, 3, 4>>, <<4, 3, 2, 1, 0>>,
    <<2, 2, 2, 2, 2>>, <<0, 1, 2, 4, 3>>, <<2, 0, 4, 1, 3>> }

InitSelect ==
  \E cols \in UNION {[1..w -> CorrelationSamples] : w \in 1..MaxCols} :
    /\ data = [k \in 1..Len(cols[1]) |->
                 [index |-> k - 1,
                  byte |-> [c \in 1..Len(cols) |-> cols[c][k]],
                  group |-> EmptyMap]]
    /\ numBytesPerLine = Len(cols)
    /\ byteStats = Stats(data)
    /\ selectedBytes = <<>>
    /\ byteGroups = <<>>
    /\ error = ""
    /\ groupingMode = FALSE
    /\ currentGroup = <<>>
    /\ correlationData = <<>>
    /\ createdIds = {}

NextSelect ==
  \/ ByteButton /\ correlationEffect
  \/ AnalyzeData /\ correlationEffect

SpecSelect == InitSelect /\ [][NextSelect]_vars

(***************************************************************************)
(* Selection and entropy on matrices of any height: the session holds the  *)
(* decode of up to MaxRows lines of two bytes each, the bytes drawn from   *)
(* EntropyValues; the steps are the byte buttons and Analyze Data.         *)
(***************************************************************************)
\* most records of the matrix
MaxRows == 3

\* byte values whose decimal texts run together without a separator
EntropyValues == {1, 11, 2}

InitEntropy ==
  \E n \in 1..MaxRows :
    \E column1 \in [1..n -> EntropyValues], column2 \in [1..n -> EntropyValues] :
      /\ data = [k \in 1..n |->
                   [index |-> k - 1,
                    byte |-> <<column1[k], column2[k]>>,
                    group |-> EmptyMap]]
      /\ numBytesPerLine = Len(data[1].byte)
      /\ byteStats = Stats(data)
      /\ selectedBytes = <<>>
      /\ byteGroups = <<>>
      /\ error = ""
      /\ groupingMode = FALSE
      /\ currentGroup = <<>>
      /\ correlationData = <<>>
      /\ createdIds = {}

NextEntropy ==
  \/ ByteButton /\ correlationEffect
  \/ AnalyzeData /\ correlationEffect

SpecEntropy == InitEntropy /\ [][NextEntropy]_vars

(***************************************************************************)
(* The session on one text: Analyze Data is pressed on ExampleText only;   *)
(* the other buttons are those of the page.                                *)
(***************************************************************************)
ExampleText ==
  <<"0", "1", "0", "2", NL, "0", "3", "0", "4", NL, "0", "5", "0", "6", NL>>

AnalyzeExample == processData(ExampleText)

NextExample ==
  \/ AnalyzeExample /\ correlationEffect
  \/ ByteButton /\ correlationEffect
  \/ GroupingButton /\ correlationEffect
  \/ SaveGroup /\ correlationEffect
  \/ RemoveButton /\ correlationEffect

SpecExample == Init /\ [][NextExample]_vars

(***************************************************************************)
(* Steps named by the properties below.                                    *)
(***************************************************************************)
FailedDecodeStep == \E input \in Inputs : ~Decoded(input).ok /\ processData(input)

SuccessfulDecodeStep == \E input \in Inputs : Decoded(input).ok /\ processData(input)

\* a createGroup call that committed a group (only createGroup appends)
GroupAddedStep == Len(byteGroups') = Len(byteGroups) + 1

AddedGroup == byteGroups'[Len(byteGroups')]

GroupIds == {g.id : g \in Range(byteGroups)}

\* the number whose base-256 digits, most significant first, are values;
\* defined while every value is a byte 0..255
RECURSIVE BigEndian(_)
BigEndian(values) ==
  IF values = <<>> THEN 0
  ELSE 256 * BigEndian(SubSeq(values, 1, Len(values) - 1)) + values[Len(values)]

GroupBytesOf(g, sample) == [p \in 1..Len(g.bytes) |-> ByteOf(sample, g.bytes[p])]

----------------------------------------------------------------------------
\* C1: group ids are never reused: the id createGroup gives a new group is
\* strictly greater than the id of every group created earlier in the
\* session, removed ones included (createdIds holds every id given so far).
C1_IdsNeverReused ==
  [][GroupAddedStep => \A earlier \in createdIds : AddedGroup.id > earlier]_vars

\* C2: every record of the held matrix has exactly numBytesPerLine byte
\* values, each an integer in 0..255 (the byte values change only in a
\* successful processData, so this is its postcondition).
C2_RecordsAreWBytes ==
  \A k \in 1..Len(data) :
     /\ Len(data[k].byte) = numBytesPerLine
     /\ \A j \in 1..Len(data[k].byte) : data[k].byte[j] \in 0..255

\* C3: a processData call whose text fails validation leaves data, the
\* column count, the statistics, the groups, the selection and the draft as
\* they were, and leaves a non-empty error message.
C3_FailedDecodeKeepsState ==
  [][FailedDecodeStep =>
       /\ UNCHANGED <<data, numBytesPerLine, byteStats, byteGroups,
                      selectedBytes, currentGroup>>
       /\ error' # ""]_vars

\* C3 witness: a failed decode has acted on a session that held a matrix, a
\* group, a selection and a draft.
C3_Witness ==
  /\ error = InvalidFormat
  /\ Len(data) > 0
  /\ Len(byteGroups) > 0
  /\ Len(selectedBytes) > 0
  /\ Len(currentGroup) > 0

\* C4: after a successful re-decode every group that existed before it has,
\* in every record of the new matrix, a column keyed by its own id holding
\* the big-endian composition of the record's bytes at the group's indices.
C4_GroupsRecomputedOnDecode ==
  [][SuccessfulDecodeStep =>
       \A g \in Range(byteGroups) : \A k \in 1..Len(data') :
          /\ g.id \in DOMAIN data'[k].group
          /\ \A p \in 1..Len(g.bytes) : ByteOf(data'[k], g.bytes[p]) \in 0..255
          /\ data'[k].group[g.id] = BigEndian(GroupBytesOf(g, data'[k]))]_vars

\* v >= 0 and the base-256 digits of v, most significant first, are values
RECURSIVE IsBigEndianOf(_, _)
IsBigEndianOf(v, values) ==
  IF values = <<>> THEN v = 0
  ELSE /\ v >= 0
       /\ v % 256 = values[Len(values)]
       /\ IsBigEndianOf(v \div 256, SubSeq(values, 1, Len(values) - 1))

\* C5 (under SpecCombine): the value combineBytes gives a group in a record
\* is the big-endian composition of the group's bytes, the sum of
\* values[p] * 256^(len-1-p): non-negative, at most 2^(8*len) - 1, for every
\* length len (4 and more included) and every byte value.
C5_CombineIsBigEndian ==
  \A g \in Range(byteGroups) : \A k \in 1..Len(data) :
     /\ g.id \in DOMAIN data[k].group
     /\ IsBigEndianOf(data[k].group[g.id], GroupBytesOf(g, data[k]))

\* C6: in every record the set of group<id> keys equals the set of ids of
\* the groups in byteGroups.
C6_ColumnsMatchGroups ==
  \A k \in 1..Len(data) : DOMAIN data[k].group = GroupIds

\* C7 (under SpecLegacy, the variant that recomputes group columns): a
\* re-decode whose text passes validation and whose column count is at or
\* below a byte index some existing group references fails, an error is
\* reported and the held matrix stays, instead of a derived value being
\* produced for that group.
C7_NarrowerDecodeRejected ==
  [][\A input \in Inputs :
        (/\ processDataLegacy(input)
         /\ Decoded(input).ok
         /\ \E g \in Range(byteGroups) : \E b \in Range(g.bytes) :
               b >= Decoded(input).numBytes)
        => (error' # "" /\ data' = data)]_vars

\* C8: every group createGroup adds has a non-empty byte list whose indices
\* all lie in 0..W-1 for the matrix held at that moment; with an index
\* outside that range in the draft no group is added.
C8_CreatedGroupInRange ==
  [][/\ GroupAddedStep =>
          /\ AddedGroup.bytes # <<>>
          /\ \A b \in Range(AddedGroup.bytes) : 0 <= b /\ b < numBytesPerLine
     /\ (createGroup /\ \E b \in Range(currentGroup) : b >= numBytesPerLine)
          => byteGroups' = byteGroups]_vars

\* C9: removeGroup(id) leaves no group with that id and no group<id> column
\* in any record, and keeps every other group (id, bytes, name) and every
\* other column of every record as it was.
C9_RemoveGroupFrame ==
  [][\A id \in GroupIds :
        removeGroup(id) =>
          /\ \A h \in Range(byteGroups') : h.id # id
          /\ \A g \in Range(byteGroups) : g.id # id => g \in Range(byteGroups')
          /\ Len(byteGroups') =
               Cardinality({i \in 1..Len(byteGroups) : byteGroups[i].id # id})
          /\ Len(data') = Len(data)
          /\ \A k \in 1..Len(data) :
               /\ DOMAIN data'[k].group = DOMAIN data[k].group \ {id}
               /\ \A j \in DOMAIN data'[k].group :
                    data'[k].group[j] = data[k].group[j]
               /\ data'[k].byte = data[k].byte
               /\ data'[k].index = data[k].index]_vars

\* C9 witness: the group with id 0 has been removed while the group with
\* id 1 and its column survive.
C9_Witness ==
  /\ createdIds = {0, 1}
  /\ Len(byteGroups) = 1
  /\ byteGroups[1].id = 1
  /\ \A k \in 1..Len(data) : DOMAIN data[k].group = {1}

\* C10: the draft is empty right after a group is committed and right after
\* grouping mode is cancelled (the button pressed while the mode is on).
C10_DraftClearedOnCommitOrCancel ==
  [][/\ GroupAddedStep => currentGroup' = <<>>
     /\ (groupingMode /\ toggleGroupingMode) => currentGroup' = <<>>]_vars

\* C11: createGroup with a non-empty draft appends exactly one group, whose
\* byte list is the draft, to the groups it had, empties the draft and turns
\* grouping mode off; with an empty draft it leaves the groups, the matrix,
\* the draft and grouping mode as they were.
C11_CreateGroupContract ==
  [][createGroup =>
       IF Len(currentGroup) > 0
       THEN /\ Len(byteGroups') = Len(byteGroups) + 1
            /\ SubSeq(byteGroups', 1, Len(byteGroups)) = byteGroups
            /\ AddedGroup.bytes = currentGroup
            /\ currentGroup' = <<>>
            /\ groupingMode' = FALSE
       ELSE UNCHANGED <<byteGroups, data, currentGroup, groupingMode>>]_vars

\* C11 witness: createGroup has committed the draft [0, 1] and grouping mode
\* was entered again, so the draft is empty where createGroup can be called.
C11_Witness ==
  /\ Len(byteGroups) = 1
  /\ byteGroups[1].bytes = <<0, 1>>
  /\ groupingMode
  /\ currentGroup = <<>>

\* C12: toggleByte(i) changes exactly one target: in grouping mode the draft
\* changes and selectedBytes stays; outside it the membership of i in
\* selectedBytes flips, no other member changes and the draft stays; the
\* matrix, the groups and grouping mode stay in both cases.
C12_ToggleByteOneTarget ==
  [][\A i \in 0..(numBytesPerLine - 1) :
        toggleByte(i) =>
          /\ UNCHANGED <<data, byteGroups, groupingMode>>
          /\ IF groupingMode
             THEN /\ selectedBytes' = selectedBytes
                  /\ currentGroup' # currentGroup
             ELSE /\ currentGroup' = currentGroup
                  /\ (i \in Range(selectedBytes')) # (i \in Range(selectedBytes))
                  /\ Range(selectedBytes') \ {i} = Range(selectedBytes) \ {i}]_vars

\* C12 witness: toggles have reached both targets: a byte is selected and,
\* in grouping mode, another is in the draft.
C12_Witness ==
  /\ groupingMode
  /\ selectedBytes = <<0>>
  /\ currentGroup = <<1>>

\* C13 as stated: a successful processData leaves a matrix, no selected byte
\* and no group; a failed one leaves the matrix, the selection and the groups
\* as they were.
C13_DecodeLeavesDecodedState ==
  [][/\ SuccessfulDecodeStep =>
          Len(data') > 0 /\ selectedBytes' = <<>> /\ byteGroups' = <<>>
     /\ FailedDecodeStep => UNCHANGED <<data, selectedBytes, byteGroups>>]_vars

\* C13 amended: a successful processData leaves a matrix and keeps the
\* selection, the groups, the draft and grouping mode as they were (a session
\* with a selection or a group keeps it); a failed one leaves the matrix, the
\* selection and the groups as they were.
C13_DecodeKeepsSelectionAndGroups ==
  [][/\ SuccessfulDecodeStep =>
          /\ Len(data') > 0
          /\ UNCHANGED <<selectedBytes, byteGroups, currentGroup, groupingMode>>
     /\ FailedDecodeStep => UNCHANGED <<data, selectedBytes, byteGroups>>]_vars

\* C13 witness: a successful decode has replaced the matrix of a session
\* with a selected byte and a group: both are still there, and the records
\* are fresh (no group column).
C13_Witness ==
  /\ error = ""
  /\ Len(data) > 0
  /\ Len(selectedBytes) > 0
  /\ Len(byteGroups) > 0
  /\ \A k \in 1..Len(data) : DOMAIN data[k].group = {}

\* a text of white space only, the empty text included
IsBlank(text) == \A i \in 1..Len(text) : IsWhiteSpace(text[i])

\* C14: processData of a text that is empty or white space only reports the
\* empty-input error 'No data provided'.
C14_BlankTextIsNoData ==
  [][\A input \in Texts :
        (IsBlank(input) /\ processData(input)) => error' = NoData]_vars

\* every line of the text, as written, is a non-empty run of hex digits
AllLinesHex(text) ==
  \A k \in 1..Len(SplitLines(text)) : IsHexString(SplitLines(text)[k])

\* every line of the text, as written, is as long as the first and not empty
LinesOfOneLength(text) ==
  LET ls == SplitLines(text)
  IN  \A k \in 1..Len(ls) : Len(ls[k]) = Len(ls[1]) /\ Len(ls[k]) > 0

\* the characters of the text that are neither hex digits nor line breaks
NonHexPositions(text) ==
  {i \in 1..Len(text) : text[i] # NL /\ ~IsHexDigit(text[i])}

\* C15: processData succeeds on every text whose lines are all non-empty,
\* of one length and made of hex digits; it reports the malformed-input
\* error when the lines are hex digits but one differs in length from the
\* first, and when exactly one character of a text of the first kind has
\* been replaced by a non-hex character, at a line's start or end included.
C15_HexAcceptedOthersRejected ==
  [][\A input \in Texts :
        processData(input) =>
          /\ (AllLinesHex(input) /\ LinesOfOneLength(input))
                => (error' = "" /\ Len(data') = Len(SplitLines(input)))
          /\ (AllLinesHex(input) /\ ~LinesOfOneLength(input))
                => error' = InvalidFormat
          /\ (LinesOfOneLength(input) /\ Cardinality(NonHexPositions(input)) = 1)
                => error' = InvalidFormat]_vars

\* C16 (under SpecSelect): while the matrix is not empty, correlationData
\* has exactly one entry for each unordered pair of distinct indices of
\* selectedBytes and no other entry: none pairs an index with itself, none
\* names an index that is not selected, no pair comes twice or in both
\* orders, and with fewer than two selected bytes the list is empty.
C16_OneEntryPerSelectedPair ==
  Len(data) > 0 =>
    LET selected == Range(selectedBytes)
        Entries(a, b) == {p \in 1..Len(correlationData) :
                            {correlationData[p].byte1, correlationData[p].byte2} = {a, b}}
    IN  /\ \A p \in 1..Len(correlationData) :
             /\ correlationData[p].byte1 # correlationData[p].byte2
             /\ correlationData[p].byte1 \in selected
             /\ correlationData[p].byte2 \in selected
        /\ \A a \in selected : \A b \in selected \ {a} :
             Cardinality(Entries(a, b)) = 1
        /\ Cardinality(selected) < 2 => correlationData = <<>>

\* C16 witness: three bytes are selected and the list holds their three
\* pairs.
C16_Witness ==
  /\ Len(data) > 0
  /\ Len(selectedBytes) = 3
  /\ Len(correlationData) = 3

\* |c| > 0.7 for a coefficient c = num / sqrt(den1 * den2)
AboveSevenTenths(c) == ~c.nan /\ 100 * c.num * c.num > 49 * c.den1 * c.den2

\* C17 (under SpecSelect): the rows CorrelationMatrix shows are exactly the
\* entries of correlationData whose coefficient is above 0.7 in absolute
\* value (one at exactly 0.7, or below, is not shown), and when no entry
\* passes it shows the 'no significant correlations' message.
C17_RowsAreStrongPairs ==
  LET shown == CorrelationMatrix(correlationData)
  IN  /\ \A row \in Range(shown.rows) : row \in Range(correlationData)
      /\ \A entry \in Range(correlationData) :
           (entry \in Range(shown.rows)) <=> AboveSevenTenths(entry.correlation)
      /\ (shown.heading = NoSignificant)
           <=> (\A entry \in Range(correlationData) :
                  ~AboveSevenTenths(entry.correlation))

\* C17 witness: of three computed pairs one has the coefficient 0.7 exactly
\* and is not shown, and exactly one is shown.
C17_Witness ==
  /\ Len(correlationData) = 3
  /\ \E entry \in Range(correlationData) :
       entry.correlation = [nan |-> FALSE, num |-> 7, den1 |-> 10, den2 |-> 10]
  /\ Len(CorrelationMatrix(correlationData).rows) = 1

\* all values of the column are one and the same number
IsConstantColumn(column) ==
  \A i \in 1..Len(column) : IsNumber(column[i]) /\ column[i] = column[1]

\* C18: the coefficient calculateCorrelation returned for a pair is 0 when
\* one of the two columns is constant, and 1 when the two columns hold the
\* same numbers and are not constant.
C18_ConstantGivesZeroSameGivesOne ==
  Len(data) > 0 =>
    \A entry \in Range(correlationData) :
       LET column1 == ByteColumn(data, entry.byte1)
           column2 == ByteColumn(data, entry.byte2)
       IN  /\ (IsConstantColumn(column1) \/ IsConstantColumn(column2))
                => entry.correlation = CoefficientZero
           /\ (/\ column1 = column2
               /\ \A i \in 1..Len(column1) : IsNumber(column1[i])
               /\ ~IsConstantColumn(column1))
                => /\ ~entry.correlation.nan
                   /\ entry.correlation.num > 0
                   /\ entry.correlation.num = entry.correlation.den1
                   /\ entry.correlation.num = entry.correlation.den2

\* C19: byteStats has an entry for exactly the columns 0..W-1; each entry's
\* min, max and mean are numbers, those of the column's values in data, with
\* min <= mean <= max, and its variance (so its stdDev) is 0 exactly when
\* all records have the same value in the column.
C19_StatsMatchColumns ==
  /\ DOMAIN byteStats = 0..(numBytesPerLine - 1)
  /\ \A i \in DOMAIN byteStats :
       LET column == ByteColumn(data, i)
           n      == Len(column)
           st     == byteStats[i]
       IN  /\ IsNumber(st.min) /\ IsNumber(st.max) /\ IsNumber(st.mean[1])
           /\ st.min \in Range(column) /\ \A k \in 1..n : st.min <= column[k]
           /\ st.max \in Range(column) /\ \A k \in 1..n : st.max >= column[k]
           /\ st.mean[1] * n = SumSeq(column) * st.mean[2]
           /\ st.min * st.mean[2] <= st.mean[1]
           /\ st.mean[1] <= st.max * st.mean[2]
           /\ (st.variance[1] = 0) <=> (\A k \in 1..n : column[k] = column[1])

\* C20: a successful processData of a text of n lines leaves n records in
\* line order, record k with index k; a line of L characters gives
\* ceil(L / 2) byte values, the j-th the value of the two hex digits at
\* characters 2j and 2j + 1, or of the single last digit when L is odd.
C20_RecordsFollowLines ==
  [][\A input \in Texts :
        (Decoded(input).ok /\ processData(input)) =>
          LET lines == Lines(input)
          IN  /\ Len(data') = Len(lines)
              /\ \A k \in 1..Len(lines) :
                   LET line == lines[k]
                       byte == data'[k].byte
                   IN  /\ data'[k].index = k - 1
                       /\ Len(byte) = (Len(line) + 1) \div 2
                       /\ \A j \in 1..Len(byte) :
                            /\ IsHexDigit(line[2 * j - 1])
                            /\ IF 2 * j <= Len(line)
                               THEN /\ IsHexDigit(line[2 * j])
                                    /\ byte[j] = 16 * HexValue(line[2 * j - 1])
                                                   + HexValue(line[2 * j])
                               ELSE byte[j] = HexValue(line[2 * j - 1])]_vars

\* an entropy of exactly 0: den / num = 1
EntropyIsZero(h) == h.num = h.den

\* an entropy of log2(count) over count values: den / num = count ^ count
EntropyIsLog2(h, count) == h.n = count /\ h.num * (count ^ count) = h.den

\* an entropy >= 0: den / num >= 1
EntropyNotNegative(h) == h.num <= h.den

SameInEveryRecord(column) == \A k \in 1..Len(column) : column[k] = column[1]

PairwiseDistinct(column) ==
  \A k1, k2 \in 1..Len(column) : k1 # k2 => column[k1] # column[k2]

\* C21 (under SpecEntropy): the entropy shown for a selected column is 0
\* when every record holds the same value in it, log2(N) when its N values
\* are pairwise distinct, and in no case negative.
C21_EntropyOfConstantAndDistinct ==
  \A p \in 1..Len(entropyInfo.byteEntropies) :
     LET shown == entropyInfo.byteEntropies[p]
         column == ByteColumn(data, shown.byte)
     IN  /\ SameInEveryRecord(column) => EntropyIsZero(shown.entropy)
         /\ PairwiseDistinct(column) => EntropyIsLog2(shown.entropy, Len(data))
         /\ EntropyNotNegative(shown.entropy)

\* C21 witness: of three records, one selected column is constant and the
\* other has three distinct values; both entropies are shown.
C21_Witness ==
  /\ Len(data) = 3
  /\ Len(entropyInfo.byteEntropies) = 2
  /\ \E p, q \in 1..2 :
       /\ SameInEveryRecord(ByteColumn(data, selectedBytes[p]))
       /\ PairwiseDistinct(ByteColumn(data, selectedBytes[q]))
       /\ EntropyIsLog2(entropyInfo.byteEntropies[q].entropy, 3)

\* the values one record holds in the selected columns, in selection order
SelectedTuple(sample) ==
  [p \in 1..Len(selectedBytes) |-> ByteOf(sample, selectedBytes[p])]

\* C22 (under SpecEntropy): the entropy result is null exactly when no
\* record is held or no byte is selected; otherwise its joint entropy is
\* null exactly when fewer than two bytes are selected, and when present it
\* is the entropy of the records' tuples of selected values, two records
\* falling together exactly when their tuples are equal.
C22_JointEntropyOverTuples ==
  /\ entropyInfo.isNull <=> (Len(data) = 0 \/ Len(selectedBytes) = 0)
  /\ ~entropyInfo.isNull =>
       /\ entropyInfo.jointEntropy.isNull <=> Len(selectedBytes) < 2
       /\ ~entropyInfo.jointEntropy.isNull =>
            entropyInfo.jointEntropy.value =
              calculateEntropy([k \in 1..Len(data) |-> SelectedTuple(data[k])])

\* C22 witness: two bytes are selected over three records; two records
\* agree on one selected column but on no other, so the three tuples differ
\* and the joint entropy reported is log2(3).
C22_Witness ==
  /\ Len(data) = 3
  /\ Len(selectedBytes) = 2
  /\ ~entropyInfo.jointEntropy.isNull
  /\ PairwiseDistinct(ByteColumn(data, selectedBytes[1]))
  /\ entropyInfo.jointEntropy.value.num = 1
  /\ \E k1, k2 \in 1..3 :
       k1 # k2 /\ ByteOf(data[k1], selectedBytes[2]) = ByteOf(data[k2], selectedBytes[2])

\* a coefficient of exactly 1
CoefficientIsOne(c) == ~c.nan /\ c.num > 0 /\ c.num * c.num = c.den1 * c.den2

\* C23 (under SpecExample): once "0102\n0304\n0506\n" is decoded the session
\* holds 3 records of W = 2 bytes, byte0 = [1,3,5] and byte1 = [2,4,6], and
\* the statistics of byte0 are min 1, max 5, mean 3; while bytes 0 and 1
\* are both selected correlationData is one entry, for the pair of 0 and 1,
\* with coefficient 1, and CorrelationMatrix lists it as a strong
\* correlation.
C23_ExampleSession ==
  Len(data) > 0 =>
    /\ Len(data) = 3
    /\ numBytesPerLine = 2
    /\ ByteColumn(data, 0) = <<1, 3, 5>>
    /\ ByteColumn(data, 1) = <<2, 4, 6>>
    /\ byteStats[0].min = 1
    /\ byteStats[0].max = 5
    /\ byteStats[0].mean[1] = 3 * byteStats[0].mean[2]
    /\ Range(selectedBytes) = {0, 1} =>
         /\ Len(correlationData) = 1
         /\ {correlationData[1].byte1, correlationData[1].byte2} = {0, 1}
         /\ CoefficientIsOne(correlationData[1].correlation)
         /\ CorrelationMatrix(correlationData) =
              [heading |-> StrongCorrelations, rows |-> correlationData]
    /\ selectedBytes = <<0, 1>> =>
         correlationData[1].byte1 = 0 /\ correlationData[1].byte2 = 1

\* C23 witness: the text was decoded, then byte 0 and byte 1 were selected,
\* and the one entry is held.
C23_Witness ==
  /\ error = ""
  /\ Len(data) = 3
  /\ selectedBytes = <<0, 1>>
  /\ Len(correlationData) = 1
  /\ byteGroups = <<>>

\* C24: a processData call, whether its text decodes or not, a createGroup
\* call and a removeGroup call each leave selectedBytes as it was.
C24_SelectionSurvivesCommands ==
  [][(\/ \E input \in Inputs : processData(input)
      \/ createGroup
      \/ \E id \in GroupIds : removeGroup(id))
       => selectedBytes' = selectedBytes]_vars

\* C24 witness: with bytes 1 and 0 selected a group was created and removed
\* and a text was refused; both are still selected.
C24_Witness ==
  /\ selectedBytes = <<1, 0>>
  /\ createdIds = {0}
  /\ byteGroups = <<>>
  /\ error = InvalidFormat

\* C25: the groups held in byteGroups have pairwise distinct ids.
C25_GroupIdsDistinct ==
  \A i, j \in 1..Len(byteGroups) :
     i # j => byteGroups[i].id # byteGroups[j].id

\* C26: every index in selectedBytes and every index in the draft is a
\* column of the held matrix, 0 <= i < numBytesPerLine (toggleByte is called
\* by the byte buttons only, one per column of the matrix held then).
C26_IndicesAreColumns ==
  /\ \A b \in Range(selectedBytes) : 0 <= b /\ b < numBytesPerLine
  /\ \A b \in Range(currentGroup) : 0 <= b /\ b < numBytesPerLine

StrictlyAscending(s) == \A i \in 1..(Len(s) - 1) : s[i] < s[i + 1]

\* C27: the draft is strictly ascending (so without a repeated index) in
\* every reachable state, and so is the byte list of every group held: no
\* group such as [1,0] is ever created.
C27_DraftAndGroupsAscending ==
  /\ StrictlyAscending(currentGroup)
  /\ \A g \in Range(byteGroups) : StrictlyAscending(g.bytes)

\* C27 witness: a draft of two columns is held next to a committed group of
\* two columns.
C27_Witness ==
  /\ currentGroup = <<0, 1>>
  /\ \E g \in Range(byteGroups) : g.bytes = <<0, 1>>

\* C28: the error message is empty at the start; a processData call that
\* decodes its text leaves it empty, one that refuses its text leaves it
\* non-empty, and toggleByte, createGroup, removeGroup and the grouping-mode
\* button leave it as it was: it is empty exactly when no processData call
\* was made yet or the last one succeeded.
C28_ErrorTracksLastDecode ==
  /\ error = ""
  /\ [][/\ SuccessfulDecodeStep => error' = ""
        /\ FailedDecodeStep => error' # ""
        /\ (\/ \E i \in 0..(numBytesPerLine - 1) : toggleByte(i)
            \/ createGroup
            \/ \E id \in GroupIds : removeGroup(id)
            \/ toggleGroupingMode) => error' = error]_vars

\* C28 witness: a text was refused in a session that holds two groups and is
\* in grouping mode; the message stands.
C28_Witness ==
  /\ error = InvalidFormat
  /\ Len(byteGroups) = 2
  /\ groupingMode
  /\ Len(selectedBytes) = 0

====
